---- MODULE Spec2Model ----
(***************************************************************************)
(* module-ladspa-source: the pulse-compatible "virtual LADSPA source"      *)
(* adapter.  create_module_ladspa_source partitions the argument into      *)
(* three property bags, module_ladspa_source_load renders the filter-chain *)
(* document and binds to the delegated module, module_destroy and          *)
(* module_ladspa_source_unload tear the binding down.                      *)
(*                                                                         *)
(* A property bag is a sequence of <<key, value>> pairs with unique keys.  *)
(* A document is a sequence of tokens, one per fprintf of the code.        *)
(***************************************************************************)
EXTENDS Integers, Sequences, FiniteSets, TLC

VARIABLES
    phase,           \* position of the adapter in its lifecycle
    op,              \* the operation that ran last
    argument,        \* the argument handed to create
    idx,             \* module->idx
    props,           \* module->props
    capture_props,   \* d->capture_props
    playback_props,  \* d->playback_props
    d,               \* d->mod, d->mod_listener and what the host saw of them
    live,            \* allocations not yet released
    doc,             \* the args string handed to pw_context_load_module
    res              \* the value the last operation returned

vars == <<phase, op, argument, idx, props, capture_props, playback_props,
          d, live, doc, res>>

NULL == "<NULL>"

\* largest module index the registry hands out
MaxIdx == 1

-----------------------------------------------------------------------------
(* Property bags                                                           *)

RECURSIVE pw_properties_get(_, _)
pw_properties_get(p, key) ==
    IF p = <<>> THEN NULL
    ELSE IF Head(p)[1] = key THEN Head(p)[2]
    ELSE pw_properties_get(Tail(p), key)

HasKey(p, key) == \E i \in 1..Len(p) : p[i][1] = key

pw_properties_set(p, key, value) ==
    IF value = NULL
    THEN SelectSeq(p, LAMBDA it : it[1] # key)
    ELSE IF HasKey(p, key)
    THEN [i \in 1..Len(p) |-> IF p[i][1] = key THEN <<key, value>> ELSE p[i]]
    ELSE Append(p, <<key, value>>)

\* the words of a nested argument string
Tokens(str) ==
    CASE str = "node.passive=false" -> << <<"node.passive", "false">> >>
      [] str = "media.role=Music"   -> << <<"media.role", "Music">> >>
      [] OTHER                      -> << >>

\* adds every key=value word of the argument; a later word replaces an earlier
RECURSIVE module_args_add_props(_, _)
module_args_add_props(p, words) ==
    IF words = <<>> THEN p
    ELSE module_args_add_props(
             pw_properties_set(p, Head(words)[1], Head(words)[2]), Tail(words))

module_ladspa_source_info ==
    << <<"module.author", "Wim Taymans <wim.taymans@gmail.com>">>,
       <<"module.description", "Virtual LADSPA source">>,
       <<"module.usage", "source_name=<name for the source> ...">>,
       <<"module.version", "PACKAGE_VERSION">> >>

-----------------------------------------------------------------------------
(* Audio info                                                              *)

Positions(map) ==
    CASE map = "MONO"  -> <<"MONO">>
      [] map = "FL,FR" -> <<"FL", "FR">>
      [] OTHER         -> <<>>

Channels(str) == CASE str = "1" -> 1 [] str = "2" -> 2 [] OTHER -> 0

DefaultPositions(n) == IF n = 1 THEN <<"MONO">> ELSE <<"FL", "FR">>

\* [ok, channels, position]; fails when channels and channel_map disagree
module_args_to_audioinfo(p) ==
    LET ch  == pw_properties_get(p, "channels")
        map == pw_properties_get(p, "channel_map")
        n   == IF ch # NULL THEN Channels(ch)
               ELSE IF map # NULL THEN Len(Positions(map)) ELSE Len(DefaultPositions(0))
        pos == IF map # NULL THEN Positions(map) ELSE DefaultPositions(n)
    IN  [ok |-> n >= 1 /\ Len(pos) = n, channels |-> n, position |-> pos]

RECURSIVE JoinNames(_, _)
JoinNames(pos, i) ==
    IF i > Len(pos) THEN ""
    ELSE (IF i = 1 THEN "" ELSE ",") \o pos[i] \o JoinNames(pos, i + 1)

position_to_props(info, p) ==
    pw_properties_set(
        pw_properties_set(p, "audio.channels", ToString(info.channels)),
        "audio.position", JoinNames(info.position, 1))

-----------------------------------------------------------------------------
(* create_module_ladspa_source                                             *)
(* Each step takes and returns the bags it touches.                        *)

partition_source_name_keeps_key(p) ==
    LET str == pw_properties_get(p, "source_name")
    IN  pw_properties_set(p, "node.name", IF str # NULL THEN str ELSE "null")

\* source_name -> node.name, and the key is dropped
partition_source_name(p) ==
    LET str == pw_properties_get(p, "source_name")
    IN  IF str # NULL
        THEN pw_properties_set(pw_properties_set(p, "node.name", str),
                               "source_name", NULL)
        ELSE pw_properties_set(p, "node.name", "null")

\* source_properties -> parsed into the capture bag, and the key is dropped
partition_source_properties(b) ==
    LET str == pw_properties_get(b.props, "source_properties")
    IN  IF str # NULL
        THEN [b EXCEPT !.capture = module_args_add_props(@, Tokens(str)),
                       !.props = pw_properties_set(@, "source_properties", NULL)]
        ELSE b

partition_media_class(b) ==
    IF pw_properties_get(b.playback, "media.class") = NULL
    THEN [b EXCEPT !.playback = pw_properties_set(@, "media.class", "Audio/Source")]
    ELSE b

\* master, else source_master -> playback node.target; "master" is dropped
partition_master(b) ==
    LET m   == pw_properties_get(b.props, "master")
        str == IF m # NULL THEN m ELSE pw_properties_get(b.props, "source_master")
    IN  IF str # NULL
        THEN [b EXCEPT !.playback = pw_properties_set(@, "node.target", str),
                       !.props = pw_properties_set(@, "master", NULL)]
        ELSE b

partition_audio(b, info) ==
    LET c == position_to_props(info, b.capture)
        p == position_to_props(info, b.playback)
    IN  [b EXCEPT !.capture =
                      IF pw_properties_get(c, "node.passive") = NULL
                      THEN pw_properties_set(c, "node.passive", "true") ELSE c,
                  !.playback = p]

\* the three bags after lines 203-230
Partition(arg) ==
    LET b0 == [props    |-> module_args_add_props(module_ladspa_source_info, arg),
               capture  |-> <<>>,
               playback |-> <<>>]
        b1 == [b0 EXCEPT !.props = partition_source_name(@)]
    IN  partition_master(partition_media_class(partition_source_properties(b1)))

Bags == {"props", "capture_props", "playback_props"}

create_module_ladspa_source(arg, alloc_ok, new_ok) ==
    LET b    == Partition(arg)
        info == module_args_to_audioinfo(b.props)
        fail(r) ==
            /\ phase' = "create_failed"
            /\ props' = <<>> /\ capture_props' = <<>> /\ playback_props' = <<>>
            /\ live' = live
            /\ res' = r
    IN  /\ argument' = arg
        /\ IF ~alloc_ok THEN fail("-EINVAL")
           ELSE IF ~info.ok THEN fail("-EINVAL")
           ELSE IF ~new_ok THEN fail("-errno")
           ELSE LET c == partition_audio(b, info)
                IN  /\ phase' = "created"
                    /\ props' = c.props
                    /\ capture_props' = c.capture
                    /\ playback_props' = c.playback
                    /\ live' = live \cup Bags \cup {"module"}
                    /\ res' = "module"

-----------------------------------------------------------------------------
(* Graph document                                                          *)

spa_json_is_null(value) == value = "null"

spa_json_is_float(value) == value \in {"1", "2", "48000"}

spa_json_is_object(value) == value \in {"{}", "{ a = b }"}

\* one token per item: the key and how the value is printed
serialize_dict(dict) ==
    [i \in 1..Len(dict) |->
        LET value == dict[i][2]
        IN  <<"item", dict[i][1],
              IF value = NULL THEN "null"
              ELSE IF \/ spa_json_is_null(value)
                      \/ spa_json_is_float(value)
                      \/ spa_json_is_object(value) THEN "verbatim"
              ELSE "string",
              IF value = NULL THEN "null" ELSE value>>]

Lit(text) == <<"lit", text>>

ladspa_node_unchecked(p) ==
    LET inputs  == pw_properties_get(p, "inputs")
        outputs == pw_properties_get(p, "outputs")
    IN  [ok |-> TRUE,
         tokens |-> <<Lit(" nodes = [ { "), Lit(" type = ladspa "),
                      <<"node", "plugin", pw_properties_get(p, "plugin")>>,
                      <<"node", "label", pw_properties_get(p, "label")>> >>
                  \o (IF inputs # NULL
                      THEN << <<"node", "inputs", inputs>> >> ELSE <<>>)
                  \o (IF outputs # NULL
                      THEN << <<"node", "outputs", outputs>> >> ELSE <<>>)
                  \o <<Lit(" } ] }")>>]

\* the LADSPA node, lines 101-113; not ok when plugin or label is missing
ladspa_node(p) ==
    LET plugin  == pw_properties_get(p, "plugin")
        label   == pw_properties_get(p, "label")
        inputs  == pw_properties_get(p, "inputs")
        outputs == pw_properties_get(p, "outputs")
        open    == <<Lit(" nodes = [ { "), Lit(" type = ladspa ")>>
    IN  IF plugin = NULL THEN [ok |-> FALSE, tokens |-> open]
        ELSE IF label = NULL
        THEN [ok |-> FALSE, tokens |-> open \o << <<"node", "plugin", plugin>> >>]
        ELSE [ok |-> TRUE,
              tokens |-> open
                  \o << <<"node", "plugin", plugin>>, <<"node", "label", label>> >>
                  \o (IF inputs # NULL
                      THEN << <<"node", "inputs", inputs>> >> ELSE <<>>)
                  \o (IF outputs # NULL
                      THEN << <<"node", "outputs", outputs>> >> ELSE <<>>)
                  \o <<Lit(" } ] }")>>]

Document(p, capture, playback) ==
    <<Lit("{")>> \o serialize_dict(p) \o <<Lit(" filter.graph = {")>>
        \o ladspa_node(p).tokens
        \o <<Lit(" capture.props = {")>> \o serialize_dict(capture)
        \o <<Lit(" } playback.props = {")>> \o serialize_dict(playback)
        \o <<Lit(" } }")>>

-----------------------------------------------------------------------------
(* Lifecycle binding.  s is the record held in d:                          *)
(*   mod        d->mod, NULL or the delegated module                       *)
(*   hooks      registrations of d->mod_listener with the host             *)
(*   delegated  "none", "alive" or "destroyed": the host's module          *)
(*   pending    an unload of the adapter is scheduled                      *)
(*   n_*        how often the host was asked or told something             *)

spa_hook_remove(s) ==
    [s EXCEPT !.hooks = @ - 1, !.n_hook_remove = @ + 1]

module_schedule_unload(s) ==
    [s EXCEPT !.pending = TRUE, !.n_sched = @ + 1]

module_destroy_keeps_hook(s) ==
    module_schedule_unload([s EXCEPT !.mod = NULL, !.n_cb = @ + 1])

module_destroy_keeps_mod(s) ==
    module_schedule_unload([spa_hook_remove(s) EXCEPT !.n_cb = @ + 1])

module_destroy(s) ==
    module_schedule_unload(
        [spa_hook_remove(s) EXCEPT !.mod = NULL, !.n_cb = @ + 1])

\* the host destroys the module: every registered destroy listener is called
pw_impl_module_destroy(s) ==
    [(IF s.hooks > 0 THEN module_destroy(s) ELSE s) EXCEPT !.delegated = "destroyed"]

module_ladspa_source_unload_destroys_first(s) ==
    IF s.mod # NULL
    THEN [pw_impl_module_destroy([s EXCEPT !.n_destroy = @ + 1])
             EXCEPT !.mod = NULL, !.n_unload = @ + 1]
    ELSE [s EXCEPT !.n_unload = @ + 1]

module_ladspa_source_unload(s) ==
    IF s.mod # NULL
    THEN [pw_impl_module_destroy(
              [spa_hook_remove(s) EXCEPT !.n_destroy = @ + 1])
             EXCEPT !.mod = NULL, !.n_unload = @ + 1]
    ELSE [s EXCEPT !.n_unload = @ + 1]

module_ladspa_source_load(host_ok) ==
    LET group    == "ladspa-source-" \o ToString(idx)
        capture  == pw_properties_set(capture_props, "node.group", group)
        playback == pw_properties_set(playback_props, "node.group", group)
        node     == ladspa_node(props)
    IN  /\ capture_props' = capture
        /\ playback_props' = playback
        /\ IF ~node.ok
           THEN \* return -EINVAL with the stream open
                /\ live' = live \cup {"stream", "args"}
                /\ UNCHANGED <<doc, d>>
                /\ res' = "-EINVAL"
                /\ phase' = "load_failed"
           ELSE /\ live' = live
                /\ doc' = Document(props, capture, playback)
                /\ IF host_ok
                   THEN /\ d' = [d EXCEPT !.mod = "filter-chain",
                                          !.delegated = "alive",
                                          !.n_load_module = @ + 1,
                                          !.hooks = @ + 1,
                                          !.n_loaded = @ + 1]
                        /\ res' = "0"
                        /\ phase' = "loaded"
                   ELSE /\ d' = [d EXCEPT !.mod = NULL, !.n_load_module = @ + 1]
                        /\ res' = "-errno"
                        /\ phase' = "load_failed"

\* the registry unloads the module and frees what it owns of it
module_unload ==
    /\ d' = [module_ladspa_source_unload(d) EXCEPT !.pending = FALSE]
    /\ live' = live \ {"props", "module"}
    /\ phase' = "unloaded"
    /\ res' = "0"

-----------------------------------------------------------------------------
(* Inputs                                                                  *)

Pool ==
    << <<"source_name", "mic">>,
       <<"source_properties", "node.passive=false">>,
       <<"source_output_properties", "media.role=Music">>,
       <<"master", "hw_in">>,
       <<"source_master", "hw_alt">>,
       <<"channels", "1">>,
       <<"channel_map", "FL,FR">>,
       <<"plugin", "p">>,
       <<"label", "l">>,
       <<"input_ladspaport_map", "in1,in2">>,
       <<"output_ladspaport_map", "out1">>,
       <<"plugin", "q">> >>

RECURSIVE Pick(_, _)
Pick(S, i) ==
    IF i > Len(Pool) THEN <<>>
    ELSE (IF i \in S THEN <<Pool[i]>> ELSE <<>>) \o Pick(S, i + 1)

Arguments == {Pick(S, 1) : S \in SUBSET (1..Len(Pool))}

-----------------------------------------------------------------------------
(* The adapter                                                             *)

Init ==
    /\ phase = "init"
    /\ op = "none"
    /\ argument = <<>>
    /\ idx \in 0..MaxIdx
    /\ props = <<>> /\ capture_props = <<>> /\ playback_props = <<>>
    /\ d = [mod |-> NULL, hooks |-> 0, delegated |-> "none", pending |-> FALSE,
            n_load_module |-> 0, n_loaded |-> 0, n_sched |-> 0, n_cb |-> 0,
            n_hook_remove |-> 0, n_destroy |-> 0, n_unload |-> 0]
    /\ live = {}
    /\ doc = <<>>
    /\ res = "none"

Create ==
    /\ phase = "init"
    /\ \E arg \in Arguments, alloc_ok \in BOOLEAN, new_ok \in BOOLEAN :
           create_module_ladspa_source(arg, alloc_ok, new_ok)
    /\ op' = "create"
    /\ UNCHANGED <<idx, d, doc>>

Load ==
    /\ phase = "created"
    /\ \E host_ok \in BOOLEAN : module_ladspa_source_load(host_ok)
    /\ op' = "load"
    /\ UNCHANGED <<argument, idx, props>>

\* the host destroys the delegated module on its own
HostDestroy ==
    /\ phase = "loaded"
    /\ d.delegated = "alive"
    /\ d' = pw_impl_module_destroy(d)
    /\ phase' = IF d'.pending THEN "unload_scheduled" ELSE phase
    /\ op' = "host_destroy"
    /\ UNCHANGED <<argument, idx, props, capture_props, playback_props,
                   live, doc, res>>

\* a client asks for the unload, or a failed load is cleaned up
Unload ==
    /\ phase \in {"loaded", "load_failed", "unload_scheduled"}
    /\ module_unload
    /\ op' = "unload"
    /\ UNCHANGED <<argument, idx, props, capture_props, playback_props, doc>>

\* the unload that module_schedule_unload queued
ScheduledUnload ==
    /\ phase = "unload_scheduled"
    /\ d.pending
    /\ module_unload
    /\ op' = "scheduled_unload"
    /\ UNCHANGED <<argument, idx, props, capture_props, playback_props, doc>>

Next == Create \/ Load \/ HostDestroy \/ Unload \/ ScheduledUnload

Spec == Init /\ [][Next]_vars

-----------------------------------------------------------------------------
(* Properties                                                              *)

Created == phase \notin {"init", "create_failed"}

\* the value the argument supplies for key: that of its last word with the key
Supplied(arg, key) ==
    LET I == {i \in 1..Len(arg) : arg[i][1] = key}
    IN  arg[CHOOSE i \in I : \A j \in I : j <= i][2]

Section(dc, open, close) ==
    LET a == CHOOSE i \in 1..Len(dc) : dc[i] = Lit(open)
        b == CHOOSE i \in 1..Len(dc) : i > a /\ dc[i] = Lit(close)
    IN  {dc[i] : i \in (a + 1)..(b - 1)}

NodeSection(dc) == Section(dc, " nodes = [ { ", " } ] }")

PlaybackSection(dc) == Section(dc, " } playback.props = {", " } }")

MissingRequired == ~HasKey(argument, "plugin") \/ ~HasKey(argument, "label")

\* C1: once the host has destroyed the delegated module, module_destroy has
\* run exactly once: it removed the hook (once), cleared d->mod and scheduled
\* the unload (once) without asking for the delegated module's destruction;
\* this stays so through every unload that runs afterwards, which therefore
\* removes no hook and requests no destruction.
C1_DestroyedCallbackOnce ==
    d.n_cb >= 1 =>
        /\ d.n_cb = 1
        /\ d.n_sched = 1
        /\ d.n_hook_remove = 1
        /\ d.n_destroy = 0
        /\ d.mod = NULL
        /\ d.hooks = 0

C1_Witness ==
    /\ d.n_cb = 1
    /\ op = "unload"
    /\ phase = "unloaded"
    /\ d.n_unload = 1

\* C2: between operations d->mod is set exactly when the destruction hook is
\* registered, and after a successful load followed by unload no hook is
\* registered.
C2_ModIffHook ==
    /\ (d.mod # NULL) <=> (d.hooks > 0)
    /\ d.hooks \in {0, 1}
    /\ (phase = "unloaded" /\ d.n_loaded = 1) => d.hooks = 0

C2_Witness ==
    /\ phase = "unloaded"
    /\ d.n_loaded = 1
    /\ d.n_cb = 0
    /\ d.n_hook_remove = 1

\* C3: when the argument lacks plugin or label, load fails with an error, the
\* host is never asked to load the filter-chain module, d->mod stays unset, no
\* hook is registered and no loaded notification is emitted.
C3_MissingRequiredFails ==
    MissingRequired =>
        /\ d.n_load_module = 0
        /\ d.mod = NULL
        /\ d.hooks = 0
        /\ d.n_loaded = 0
        /\ phase # "loaded"
        /\ op = "load" => res = "-EINVAL"

C3_Witness ==
    /\ MissingRequired
    /\ op = "load"
    /\ res = "-EINVAL"
    /\ phase = "load_failed"

\* C4: when load has returned, on any path, the memory stream is closed and
\* the document buffer is freed.
C4_BufferReleased ==
    op = "load" => "stream" \notin live /\ "args" \notin live

\* C5: in the terminal Unloaded state the capture and playback property bags
\* have been released and no hook is registered.
C5_BagsReleased ==
    phase = "unloaded" /\ d.n_unload >= 1 =>
        /\ "capture_props" \notin live
        /\ "playback_props" \notin live
        /\ d.hooks = 0

\* C6 as claimed: whenever the delegated module has been destroyed, by the
\* host or at the request of unload, module_destroy has run and has scheduled
\* the adapter's unload.
C6_EveryDestructionSignals ==
    d.delegated = "destroyed" => d.n_cb = 1 /\ d.n_sched = 1

\* C6 as amended: a destruction the host initiated has run module_destroy,
\* which scheduled the unload, exactly once; a destruction that unload
\* requested has not run module_destroy and has scheduled nothing, because
\* unload removes the hook before it asks for the destruction.
C6_HostDestructionSignals ==
    d.delegated = "destroyed" =>
        IF d.n_destroy = 0
        THEN d.n_cb = 1 /\ d.n_sched = 1
        ELSE d.n_cb = 0 /\ d.n_sched = 0

C6_Witness ==
    /\ d.delegated = "destroyed"
    /\ d.n_destroy = 0
    /\ op = "host_destroy"
    /\ d.pending

\* C7: when the argument supplies input_ladspaport_map or
\* output_ladspaport_map together with plugin and label, the document load
\* produces has inputs = [ value ], respectively outputs = [ value ],
\* inside the LADSPA node.
C7_PortMapsInNode ==
    doc # <<>> =>
        /\ HasKey(argument, "input_ladspaport_map") =>
               <<"node", "inputs", Supplied(argument, "input_ladspaport_map")>>
                   \in NodeSection(doc)
        /\ HasKey(argument, "output_ladspaport_map") =>
               <<"node", "outputs", Supplied(argument, "output_ladspaport_map")>>
                   \in NodeSection(doc)

\* C8: when the argument supplies source_output_properties, its words are in
\* the playback bag after create and under playback.props in the document.
C8_OutputPropertiesMerged ==
    Created /\ HasKey(argument, "source_output_properties") =>
        \A i \in 1..Len(Tokens(Supplied(argument, "source_output_properties"))) :
            LET w == Tokens(Supplied(argument, "source_output_properties"))[i]
            IN  /\ pw_properties_get(playback_props, w[1]) = w[2]
                /\ doc # <<>> =>
                       \E t \in PlaybackSection(doc) : t[2] = w[1] /\ t[4] = w[2]

\* C9: after a successful create the module props hold none of source_name,
\* source_properties and master, and hold plugin and label, when supplied,
\* with the supplied values.
C9_PartitionStripsKeys ==
    Created =>
        /\ ~HasKey(props, "source_name")
        /\ ~HasKey(props, "source_properties")
        /\ ~HasKey(props, "master")
        /\ \A key \in {"plugin", "label"} :
               HasKey(argument, key) =>
                   pw_properties_get(props, key) = Supplied(argument, key)

C9_Witness ==
    /\ phase = "created"
    /\ \A key \in {"source_name", "source_properties", "master",
                   "plugin", "label"} : HasKey(argument, key)
    /\ pw_properties_get(props, "node.name") = "mic"

\* C10: after a successful create, if the argument supplies master or
\* source_master, playback node.target is the supplied value, master's when
\* both are supplied, and neither key is left in the module props; if it
\* supplies neither, playback has no node.target.
C10_MasterConsumed ==
    Created =>
        LET m  == HasKey(argument, "master")
            sm == HasKey(argument, "source_master")
        IN  IF m \/ sm
            THEN /\ pw_properties_get(playback_props, "node.target") =
                        Supplied(argument, IF m THEN "master" ELSE "source_master")
                 /\ ~HasKey(props, "master")
                 /\ ~HasKey(props, "source_master")
            ELSE ~HasKey(playback_props, "node.target")

====
